---- MODULE Spec2Model ----
(***************************************************************************)
(* The APIServer, Monitor and Compliance reconcilers of the operator, each *)
(* run by a controller work queue against a cluster whose resources an     *)
(* environment (users, other controllers, the status manager) changes.     *)
(***************************************************************************)
EXTENDS Integers, Sequences, FiniteSets, TLC

\* ------------------------------------------------------------------ bounds

\* How many prerequisites of the initial cluster differ from the baseline.
MaxDeviations == 1
\* How many changes the environment makes to the cluster during a run.
MaxEvents == 1

\* ------------------------------------------------------------------ names

Controllers == {"APIServer", "Monitor", "Compliance"}

\* const ResourceName of each controller package.
ResourceName(c) ==
    CASE c = "APIServer" -> "apiserver"
      [] c = "Monitor" -> "monitor"
      [] c = "Compliance" -> "compliance"

\* The request a TigeraStatus watch enqueues, and the request every other watch
\* enqueues (EnqueueRequestForObject of a cluster-scoped object such as the
\* Installation "default"). Reconcile reads nothing else of a request than
\* request.Name == ResourceName && request.Namespace == "".
StatusRequest(c) == [Name |-> ResourceName(c), Namespace |-> ""]
ObjectRequest == [Name |-> "default", Namespace |-> ""]
Requests(c) == {StatusRequest(c), ObjectRequest}

Enterprise == "TigeraSecureEnterprise"
Calico == "Calico"

OperatorNamespace == "tigera-operator"
TigeraPrometheusNamespace == "tigera-prometheus"
PacketCaptureNamespace == "tigera-packetcapture"
ComplianceNamespace == "tigera-compliance"

\* rmeta.APIServerNamespace(variant)
APIServerNamespace(variant) ==
    IF variant = Enterprise THEN "tigera-system" ELSE "calico-apiserver"

\* render.ProjectCalicoApiServerTLSSecretName(variant); the controller watches
\* both names.
ProjectCalicoApiServerTLSSecretName(variant) ==
    IF variant = Enterprise THEN "tigera-apiserver-certs" ELSE "calico-apiserver-certs"

PacketCaptureCertSecret == "tigera-packetcapture-server-tls"
VoltronTunnelSecretName == "tigera-management-cluster-connection"
PrometheusTLSSecretName == "calico-node-prometheus-tls"
PrometheusClientTLSSecretName == "calico-node-prometheus-client-tls"
AlertmanagerConfigSecret == "alertmanager-calico-node-alertmanager"
ComplianceServerCertSecret == "tigera-compliance-server-tls"

\* An object key: namespace and name.
Key(ns, name) == <<ns, name>>

\* ------------------------------------------------------------------ state

VARIABLES
    crs,            \* the primary custom resource of each controller
    tigeraStatus,   \* the TigeraStatus of each controller, written by the status manager
    res,            \* the resources the reconcilers read and never write
    ready,          \* the ReadyFlags the watch goroutines set
    objects,        \* the objects the reconcilers write: secrets and workloads
    status,         \* each reconciler's status manager
    queue,          \* each controller's work queue
    last,           \* the call that completed last, with what it returned
    events          \* the number of environment changes so far

vars == <<crs, tigeraStatus, res, ready, objects, status, queue, last, events>>

\* ------------------------------------------------------------------ objects

\* rmeta.DefaultOperatorCASignerName(): the issuer of every certificate the
\* operator's certificate manager signs.
OperatorCA == "tigera-operator-signer"
\* The issuer of a certificate a user brings (tls.MakeCA("byo-ca") in the tests).
UserCA == "byo-ca"

NoObj ==
    [exists |-> FALSE, issuer |-> "", data |-> "", serial |-> 0, images |-> <<>>, owners |-> {}]

\* A TLS secret: its certificate's issuer and the identity of its key material.
TLSSecret(issuer, serial) ==
    [exists |-> TRUE, issuer |-> issuer, data |-> "tls", serial |-> serial,
     images |-> <<>>, owners |-> {}]

\* A secret holding a configuration.
ConfigSecret(data) ==
    [exists |-> TRUE, issuer |-> "", data |-> data, serial |-> 0, images |-> <<>>, owners |-> {}]

\* A Deployment or another workload: its containers' and init containers' images.
Workload(images) ==
    [exists |-> TRUE, issuer |-> "", data |-> "workload", serial |-> 0,
     images |-> images, owners |-> {}]

APIServerTLSKeys ==
    {Key(OperatorNamespace, ProjectCalicoApiServerTLSSecretName(v)) : v \in {Enterprise, Calico}}
    \cup {Key(APIServerNamespace(v), ProjectCalicoApiServerTLSSecretName(v)) : v \in {Enterprise, Calico}}

APIServerKeys ==
    APIServerTLSKeys
    \cup {Key(OperatorNamespace, PacketCaptureCertSecret),
          Key(PacketCaptureNamespace, PacketCaptureCertSecret),
          Key(OperatorNamespace, VoltronTunnelSecretName),
          Key(APIServerNamespace(Enterprise), VoltronTunnelSecretName),
          Key(APIServerNamespace(Enterprise), "tigera-apiserver"),
          Key(APIServerNamespace(Calico), "calico-apiserver"),
          Key(PacketCaptureNamespace, "tigera-packetcapture")}

MonitorKeys ==
    {Key(OperatorNamespace, PrometheusTLSSecretName),
     Key(TigeraPrometheusNamespace, PrometheusTLSSecretName),
     Key(OperatorNamespace, PrometheusClientTLSSecretName),
     Key(TigeraPrometheusNamespace, PrometheusClientTLSSecretName),
     Key(OperatorNamespace, AlertmanagerConfigSecret),
     Key(TigeraPrometheusNamespace, AlertmanagerConfigSecret),
     Key(TigeraPrometheusNamespace, "calico-node-prometheus")}

ComplianceKeys ==
    {Key(OperatorNamespace, ComplianceServerCertSecret),
     Key(ComplianceNamespace, ComplianceServerCertSecret),
     Key(ComplianceNamespace, "compliance-controller"),
     Key(ComplianceNamespace, "compliance-server")}

ObjectKeys == APIServerKeys \cup MonitorKeys \cup ComplianceKeys

SetMax(S) == IF S = {} THEN 0 ELSE CHOOSE x \in S : \A y \in S : y <= x

\* Key material generated now differs from every key in the cluster; n tells
\* apart the key pairs generated in one call.
FreshSerial(objs, n) == SetMax({objs[k].serial : k \in ObjectKeys}) + n

\* ------------------------------------------------------------------ certificate manager

NoKeyPair == [kind |-> "nil", issuer |-> "", serial |-> 0]

\* certificateManager.GetKeyPair: with certificate management the key pair is one
\* a CSR init container will provision; otherwise the secret read from the
\* cluster, which is the user's own (BYO) unless the operator CA signed it.
GetKeyPair(objs, key) ==
    IF res.certMgmt THEN [kind |-> "certmgmt", issuer |-> "", serial |-> 0]
    ELSE IF ~objs[key].exists THEN NoKeyPair
    ELSE [kind |-> IF objs[key].issuer = OperatorCA THEN "issued" ELSE "byo",
          issuer |-> objs[key].issuer, serial |-> objs[key].serial]

\* certificateManager.GetOrCreateKeyPair: the existing key pair, or a new one
\* signed by the operator CA.
GetOrCreateKeyPair(objs, key, n) ==
    LET kp == GetKeyPair(objs, key)
    IN IF kp.kind # "nil" THEN kp
       ELSE [kind |-> "issued", issuer |-> OperatorCA, serial |-> FreshSerial(objs, n)]

\* certificatemanagement.NewKeyPair(render.VoltronTunnelSecret(), nil, ""): a
\* self-signed secret, which no CA of the operator issued.
NewTunnelKeyPair(objs, n) ==
    [kind |-> "byo", issuer |-> "voltron-tunnel", serial |-> FreshSerial(objs, n)]

\* KeyPairInterface.Secret(namespace)
KeyPairSecret(kp) == TLSSecret(kp.issuer, kp.serial)

Entry(key, obj) == [key |-> key, obj |-> obj]

\* rcertificatemanagement.CertificateManagement with
\* NewKeyPairOption(keyPair, true, true): an operator-issued key pair is rendered
\* in the operator namespace and in the application namespace, a user's own only
\* in the application namespace, and one under certificate management nowhere.
KeyPairObjects(kp, name, appNamespace) ==
    CASE kp.kind = "issued" ->
            {Entry(Key(OperatorNamespace, name), KeyPairSecret(kp)),
             Entry(Key(appNamespace, name), KeyPairSecret(kp))}
      [] kp.kind = "byo" -> {Entry(Key(appNamespace, name), KeyPairSecret(kp))}
      [] OTHER -> {}

\* render.NewPassthrough(obj)
NewPassthrough(key, obj) == {Entry(key, obj)}

\* ------------------------------------------------------------------ images

\* Installation.Spec.Registry
Registry == "some.registry.org/"

ComponentAPIServer == "tigera/cnx-apiserver"
ComponentQueryServer == "tigera/cnx-queryserver"
ComponentCSRInitContainer == "tigera/key-cert-provisioner"
ComponentPacketCapture == "tigera/packetcapture"
ComponentCalicoAPIServer == "calico/apiserver"
ComponentPrometheus == "tigera/prometheus"
ComponentComplianceController == "tigera/compliance-controller"
ComponentComplianceServer == "tigera/compliance-server"

VersionAPIServer == "v2.6.3"
VersionQueryServer == "v2.6.3"
VersionComplianceController == "v2.6.3"
VersionComplianceServer == "v2.6.3"

\* components.Component*.Version
ComponentVersion(image) ==
    CASE image = ComponentAPIServer -> VersionAPIServer
      [] image = ComponentQueryServer -> VersionQueryServer
      [] image = ComponentComplianceController -> VersionComplianceController
      [] image = ComponentComplianceServer -> VersionComplianceServer
      [] OTHER -> "builtin"

\* The digest an ImageSet lists for an image.
ImageSetDigest(image) ==
    CASE image = ComponentAPIServer -> "sha256:apiserverhash"
      [] image = ComponentQueryServer -> "sha256:queryserverhash"
      [] image = ComponentCSRInitContainer -> "sha256:calicocsrinithash"
      [] image = ComponentPacketCapture -> "sha256:packetcapturehash"
      [] OTHER -> "sha256:hash"

\* components.GetReference: the parts of the image name, in order: registry,
\* image, separator, and the ImageSet's digest or else the built-in version.
GetReference(image) ==
    IF res.imageSet = "absent"
    THEN <<Registry, image, ":", ComponentVersion(image)>>
    ELSE <<Registry, image, "@", ImageSetDigest(image)>>

\* The image of a container as render leaves it, before ResolveImages.
Unresolved(image) == <<"", image, "", "">>

\* Component.ResolveImages on one rendered object.
ResolveImages(e) ==
    [e EXCEPT !.obj.images = IF Len(@) = 0 THEN <<>>
                             ELSE [j \in 1..Len(@) |-> GetReference(@[j][2])]]

\* imageset.ApplyImageSet(ctx, client, variant, components...): every component
\* it is given resolves its images.
ApplyImageSet(components) ==
    [i \in 1..Len(components) |-> {ResolveImages(e) : e \in components[i]}]

\* ------------------------------------------------------------------ component handler

\* The components 1..n applied in order by handler.CreateOrUpdateOrDelete: each
\* object is created or updated with the custom resource as its owner.
CreateOrUpdateOrDelete(objs, components, n, cr) ==
    [k \in ObjectKeys |->
        LET idx == {i \in 1..n : \E e \in components[i] : e.key = k}
        IN IF idx = {} THEN objs[k]
           ELSE LET e == CHOOSE e \in components[SetMax(idx)] : e.key = k
                IN [e.obj EXCEPT !.owners = {cr}]]

\* ------------------------------------------------------------------ status manager

OnCRNotFound(S, c) ==
    [S EXCEPT !.status[c] =
        [crFound |-> FALSE, degraded |-> FALSE, reason |-> "", generation |-> 0]]

OnCRFound(S, c) == [S EXCEPT !.status[c].crFound = TRUE]

SetDegraded(S, c, reason) ==
    [S EXCEPT !.status[c].degraded = TRUE, !.status[c].reason = reason]

ClearDegraded(S, c) ==
    [S EXCEPT !.status[c].degraded = FALSE, !.status[c].reason = ""]

\* StatusManager.SetMetaData(&instance.ObjectMeta), which Monitor and Compliance defer.
SetMetaData(S, c, instance) == [S EXCEPT !.status[c].generation = instance.generation]

\* StatusManager.IsAvailable: whether the workloads the manager monitors are ready.
IsAvailable(c) == res.available[c]

\* ------------------------------------------------------------------ status conditions

ComponentAvailable == "Available"
ComponentProgressing == "Progressing"
ComponentDegraded == "Degraded"
ComponentReady == "Ready"

\* status.UpdateStatusCondition: one condition per TigeraStatus condition, the
\* type Available reported as Ready.
UpdateStatusCondition(statusConditions, conditions, generation) ==
    [i \in 1..Len(conditions) |->
        [type |-> IF conditions[i].type = ComponentAvailable
                  THEN ComponentReady ELSE conditions[i].type,
         status |-> conditions[i].status,
         reason |-> conditions[i].reason,
         message |-> conditions[i].message,
         observedGeneration |-> generation]]

\* ------------------------------------------------------------------ results

\* What a Reconcile call leaves and returns. err tells a non-nil error.
Return(S, exit, requeueAfter, err) ==
    [crs |-> S.crs, objects |-> S.objects, status |-> S.status,
     result |-> [Requeue |-> FALSE, RequeueAfter |-> requeueAfter],
     err |-> err, exit |-> exit]

\* r.client.Status().Update(ctx, instance)
StatusUpdate(S, c, instance) == [S EXCEPT !.crs[c] = instance]

TigeraStatusReady == "Ready"

NoFault == [at |-> "none", n |-> 0]
Fault(at) == [at |-> at, n |-> 0]

\* ------------------------------------------------------------------ APIServer

\* render.APIServer and render.PacketCaptureAPI: containers first, then init
\* containers. The CSR init container is there when certificate management
\* provisions the key.
CSRInitContainers(kp) ==
    IF kp.kind = "certmgmt" THEN <<Unresolved(ComponentCSRInitContainer)>> ELSE <<>>

APIServerDeployment(variant, tlsSecret) ==
    IF variant = Enterprise
    THEN {Entry(Key(APIServerNamespace(variant), "tigera-apiserver"),
                Workload(<<Unresolved(ComponentAPIServer), Unresolved(ComponentQueryServer)>>
                         \o CSRInitContainers(tlsSecret)))}
    ELSE {Entry(Key(APIServerNamespace(variant), "calico-apiserver"),
                Workload(<<Unresolved(ComponentCalicoAPIServer)>>
                         \o CSRInitContainers(tlsSecret)))}

PacketCaptureAPI(serverCertSecret) ==
    {Entry(Key(PacketCaptureNamespace, "tigera-packetcapture"),
           Workload(<<Unresolved(ComponentPacketCapture)>>
                    \o CSRInitContainers(serverCertSecret)))}

\* APIServerEnterpriseData with a fault: the tunnel secret is generated without
\* looking for the one in the cluster.
APIServerEnterpriseData_NewTunnelKeyPair(objs, variant) ==
    LET ent == variant = Enterprise
        managementCluster == ent /\ res.mc
    IN [managementCluster |-> managementCluster,
        managementClusterConnection |-> ent /\ res.mcc,
        amazon |-> ent /\ res.amazon = "present",
        tunnelCASecret |-> IF ~managementCluster THEN NoKeyPair
                           ELSE NewTunnelKeyPair(objs, 3),
        tunnelSecretPassthrough |-> managementCluster]

\* The enterprise-only data Reconcile queries: nil for every other variant.
APIServerEnterpriseData(objs, variant) ==
    LET ent == variant = Enterprise
        managementCluster == ent /\ res.mc
        found == GetKeyPair(objs, Key(OperatorNamespace, VoltronTunnelSecretName))
        create == managementCluster /\ found.kind = "nil"
    IN [managementCluster |-> managementCluster,
        managementClusterConnection |-> ent /\ res.mcc,
        amazon |-> ent /\ res.amazon = "present",
        tunnelCASecret |-> IF ~managementCluster THEN NoKeyPair
                           ELSE IF create THEN NewTunnelKeyPair(objs, 3) ELSE found,
        tunnelSecretPassthrough |-> create]

\* APIServerCertificates with a fault: the TLS secret is also passed through
\* into the operator namespace, as the tunnel secret is.
APIServerCertificates_Passthrough(variant, tlsSecret, tunnelCASecret) ==
    KeyPairObjects(tlsSecret, ProjectCalicoApiServerTLSSecretName(variant),
                   APIServerNamespace(variant))
    \cup KeyPairObjects(tunnelCASecret, VoltronTunnelSecretName, APIServerNamespace(variant))
    \cup (IF tlsSecret.kind \in {"issued", "byo"}
          THEN NewPassthrough(Key(OperatorNamespace, ProjectCalicoApiServerTLSSecretName(variant)),
                              KeyPairSecret(tlsSecret))
          ELSE {})

\* The CertificateManagement component of the API server: the key pair options
\* of tlsSecret and tunnelCASecret.
APIServerCertificates(variant, tlsSecret, tunnelCASecret) ==
    KeyPairObjects(tlsSecret, ProjectCalicoApiServerTLSSecretName(variant),
                   APIServerNamespace(variant))
    \cup KeyPairObjects(tunnelCASecret, VoltronTunnelSecretName, APIServerNamespace(variant))

\* PacketCaptureCertificates with a fault: the secret is rendered into the
\* packet capture namespace only.
PacketCaptureCertificates_NamespaceOnly(packetCaptureCertSecret) ==
    IF packetCaptureCertSecret.kind \in {"issued", "byo"}
    THEN {Entry(Key(PacketCaptureNamespace, PacketCaptureCertSecret),
                KeyPairSecret(packetCaptureCertSecret))}
    ELSE {}

\* PacketCaptureCertificates with a fault: the secret is also passed through
\* into the operator namespace, whatever provisions the key pair.
PacketCaptureCertificates_Passthrough(packetCaptureCertSecret) ==
    KeyPairObjects(packetCaptureCertSecret, PacketCaptureCertSecret, PacketCaptureNamespace)
    \cup NewPassthrough(Key(OperatorNamespace, PacketCaptureCertSecret),
                        KeyPairSecret(packetCaptureCertSecret))

\* The CertificateManagement component of packet capture: the key pair option of
\* packetCaptureCertSecret.
PacketCaptureCertificates(packetCaptureCertSecret) ==
    KeyPairObjects(packetCaptureCertSecret, PacketCaptureCertSecret, PacketCaptureNamespace)

\* APIServerComponents with a fault: packet capture is rendered for every
\* variant.
APIServerComponents_AlwaysPacketCapture(objs, variant) ==
    LET name == ProjectCalicoApiServerTLSSecretName(variant)
        tlsSecret == GetOrCreateKeyPair(objs, Key(OperatorNamespace, name), 1)
        data == APIServerEnterpriseData(objs, variant)
        packetCaptureCertSecret ==
            GetOrCreateKeyPair(objs, Key(OperatorNamespace, PacketCaptureCertSecret), 2)
    IN <<APIServerDeployment(variant, tlsSecret),
         APIServerCertificates(variant, tlsSecret, data.tunnelCASecret)>>
       \o (IF data.tunnelSecretPassthrough
           THEN <<NewPassthrough(Key(OperatorNamespace, VoltronTunnelSecretName),
                                 KeyPairSecret(data.tunnelCASecret))>>
           ELSE <<>>)
       \o <<PacketCaptureAPI(packetCaptureCertSecret),
            PacketCaptureCertificates(packetCaptureCertSecret)>>

\* The components Reconcile renders, in the order it applies them.
APIServerComponents(objs, variant) ==
    LET name == ProjectCalicoApiServerTLSSecretName(variant)
        tlsSecret == GetOrCreateKeyPair(objs, Key(OperatorNamespace, name), 1)
        data == APIServerEnterpriseData(objs, variant)
        packetCaptureCertSecret ==
            GetOrCreateKeyPair(objs, Key(OperatorNamespace, PacketCaptureCertSecret), 2)
    IN <<APIServerDeployment(variant, tlsSecret),
         APIServerCertificates(variant, tlsSecret, data.tunnelCASecret)>>
       \o (IF data.tunnelSecretPassthrough
           THEN <<NewPassthrough(Key(OperatorNamespace, VoltronTunnelSecretName),
                                 KeyPairSecret(data.tunnelCASecret))>>
           ELSE <<>>)
       \o (IF variant = Enterprise
           THEN <<PacketCaptureAPI(packetCaptureCertSecret),
                  PacketCaptureCertificates(packetCaptureCertSecret)>>
           ELSE <<>>)

\* APIServerResolved with a fault: the image set is applied before the packet
\* capture components are appended.
APIServerResolved_BeforePacketCapture(objs, variant) ==
    LET components == APIServerComponents(objs, variant)
        n == IF variant = Enterprise THEN Len(components) - 2 ELSE Len(components)
    IN ApplyImageSet(SubSeq(components, 1, n)) \o SubSeq(components, n + 1, Len(components))

\* The components after imageset.ApplyImageSet(ctx, r.client, variant, components...).
APIServerResolved(objs, variant) == ApplyImageSet(APIServerComponents(objs, variant))

\* APIServerApply with a fault: no kick is scheduled while the workloads are not
\* available.
APIServerApply_NoKick(S, instance, variant, io) ==
    LET c == "APIServer"
        Ready(S2) ==
            IF ~IsAvailable(c) THEN Return(S2, "notAvailable", 0, FALSE)
            ELSE IF io.at = "readyUpdate" THEN Return(S2, "readyUpdateError", 0, TRUE)
            ELSE Return(StatusUpdate(S2, c, [instance EXCEPT !.state = TigeraStatusReady]),
                        "ready", 0, FALSE)
        Applied(components, n, S1) ==
            IF n < Len(components)
            THEN Return(SetDegraded(S1, c, "ResourceUpdateError"), "applyError", 0, TRUE)
            ELSE Ready(ClearDegraded(S1, c))
        Apply(components, n) ==
            Applied(components, n,
                    [S EXCEPT !.objects = CreateOrUpdateOrDelete(S.objects, components, n, c)])
        Components(components) ==
            Apply(components, IF io.at = "apply" /\ io.n \in 1..Len(components)
                              THEN io.n - 1 ELSE Len(components))
    IN Components(APIServerResolved(S.objects, variant))

\* Reconcile from the component loop on: apply, clear degraded, check
\* availability, write Ready.
APIServerApply(S, instance, variant, io) ==
    LET c == "APIServer"
        Ready(S2) ==
            IF ~IsAvailable(c) THEN Return(S2, "notAvailable", 30, FALSE)
            ELSE IF io.at = "readyUpdate" THEN Return(S2, "readyUpdateError", 0, TRUE)
            ELSE Return(StatusUpdate(S2, c, [instance EXCEPT !.state = TigeraStatusReady]),
                        "ready", 0, FALSE)
        Applied(components, n, S1) ==
            IF n < Len(components)
            THEN Return(SetDegraded(S1, c, "ResourceUpdateError"), "applyError", 0, TRUE)
            ELSE Ready(ClearDegraded(S1, c))
        Apply(components, n) ==
            Applied(components, n,
                    [S EXCEPT !.objects = CreateOrUpdateOrDelete(S.objects, components, n, c)])
        Components(components) ==
            Apply(components, IF io.at = "apply" /\ io.n \in 1..Len(components)
                              THEN io.n - 1 ELSE Len(components))
    IN Components(APIServerResolved(S.objects, variant))

\* Reconcile from the enterprise-only queries to the image set.
APIServerRender(S, instance, variant, io) ==
    LET c == "APIServer"
        ent == variant = Enterprise
        Fail(reason, exit) == Return(SetDegraded(S, c, reason), exit, 0, TRUE)
    IN IF ent /\ io.at = "getManagementCluster"
       THEN Fail("ResourceReadError", "managementClusterError")
       ELSE IF ent /\ io.at = "getManagementClusterConnection"
       THEN Fail("ResourceReadError", "managementClusterConnectionError")
       ELSE IF ent /\ res.mcc /\ res.mc
       THEN Fail("ResourceValidationError", "bothManagement")
       ELSE IF ent /\ res.mc /\ io.at = "tunnelSecret"
       THEN Fail("ResourceCreateError", "tunnelSecretError")
       ELSE IF ent /\ res.amazon # "nocrd" /\ io.at = "getAmazonCloudIntegration"
       THEN Fail("ResourceReadError", "amazonError")
       ELSE IF io.at = "getK8sServiceEndPoint"
       THEN Fail("ResourceReadError", "endpointError")
       ELSE IF io.at = "render"
       THEN Fail("ResourceRenderingError", "renderError")
       ELSE IF ent /\ io.at = "packetCaptureKeyPair"
       THEN Fail("ResourceReadError", "packetCaptureCertError")
       ELSE IF ent /\ io.at = "getAuthentication"
       THEN Fail("ResourceNotFound", "authenticationError")
       ELSE IF ent /\ io.at = "getKeyValidatorConfig"
       THEN Fail("ResourceUpdateError", "keyValidatorError")
       ELSE IF io.at = "applyImageSet" \/ res.imageSet = "incomplete"
       THEN Fail("ResourceUpdateError", "imageSetError")
       ELSE APIServerApply(S, instance, variant, io)

\* Reconcile from the Installation query to the pull secrets.
APIServerInstallation(S, instance, io) ==
    LET c == "APIServer"
        variant == res.installation
        Fail(reason, exit) == Return(SetDegraded(S, c, reason), exit, 0, TRUE)
    IN IF io.at = "getInstallation" THEN Fail("ResourceReadError", "installationError")
       ELSE IF res.installation = "absent" THEN Fail("ResourceNotFound", "installationNotFound")
       ELSE IF variant = ""
       THEN Return(SetDegraded(S, c, "ResourceNotReady"), "installationNotReady", 0, FALSE)
       ELSE IF io.at = "createCertificateManager"
       THEN Fail("ResourceCreateError", "certificateManagerError")
       ELSE IF io.at = "getOrCreateKeyPair" THEN Fail("ResourceCreateError", "keyPairError")
       ELSE IF io.at = "getPullSecrets" THEN Fail("ResourceReadError", "pullSecretsError")
       ELSE APIServerRender(S, instance, variant, io)

\* APIServerConditions with a fault: the new conditions are appended to the ones
\* recorded before.
APIServerConditions_Append(S, instance, io) ==
    LET c == "APIServer"
        ts == tigeraStatus[c]
        conditions == instance.conditions
                      \o UpdateStatusCondition(instance.conditions, ts.conditions,
                                               instance.generation)
    IN IF io.at = "getTigeraStatus" \/ ~ts.exists
       THEN Return(S, "tigeraStatusError", 0, TRUE)
       ELSE IF io.at = "statusUpdate" THEN Return(S, "statusUpdateError", 0, TRUE)
       ELSE Return(StatusUpdate(S, c, [instance EXCEPT !.conditions = conditions]),
                   "conditionsUpdated", 0, FALSE)

\* APIServerConditions with a fault: the generation is not passed on.
APIServerConditions_NoGeneration(S, instance, io) ==
    LET c == "APIServer"
        ts == tigeraStatus[c]
        conditions == UpdateStatusCondition(instance.conditions, ts.conditions, 0)
    IN IF io.at = "getTigeraStatus" \/ ~ts.exists
       THEN Return(S, "tigeraStatusError", 0, TRUE)
       ELSE IF io.at = "statusUpdate" THEN Return(S, "statusUpdateError", 0, TRUE)
       ELSE Return(StatusUpdate(S, c, [instance EXCEPT !.conditions = conditions]),
                   "conditionsUpdated", 0, FALSE)

\* The status conditions branch of Reconcile, taken for the TigeraStatus request.
APIServerConditions(S, instance, io) ==
    LET c == "APIServer"
        ts == tigeraStatus[c]
        conditions == UpdateStatusCondition(instance.conditions, ts.conditions,
                                            instance.generation)
    IN IF io.at = "getTigeraStatus" \/ ~ts.exists
       THEN Return(S, "tigeraStatusError", 0, TRUE)
       ELSE IF io.at = "statusUpdate" THEN Return(S, "statusUpdateError", 0, TRUE)
       ELSE Return(StatusUpdate(S, c, [instance EXCEPT !.conditions = conditions]),
                   "conditionsUpdated", 0, FALSE)

\* ReconcileAPIServer.Reconcile
APIServerReconcile(S, request, io) ==
    LET c == "APIServer"
        instance == S.crs[c]
    IN IF io.at = "getAPIServer"
       THEN Return(SetDegraded(S, c, "ResourceReadError"), "readError", 0, TRUE)
       ELSE IF ~instance.exists THEN Return(OnCRNotFound(S, c), "notFound", 0, FALSE)
       ELSE IF request.Name = ResourceName(c) /\ request.Namespace = ""
       THEN APIServerConditions(OnCRFound(S, c), instance, io)
       ELSE APIServerInstallation(OnCRFound(S, c), instance, io)

APIServerFaults ==
    {"getAPIServer", "getTigeraStatus", "statusUpdate", "getInstallation",
     "createCertificateManager", "getOrCreateKeyPair", "getPullSecrets",
     "getManagementCluster", "getManagementClusterConnection", "tunnelSecret",
     "getAmazonCloudIntegration", "getK8sServiceEndPoint", "render",
     "packetCaptureKeyPair", "getAuthentication", "getKeyValidatorConfig",
     "applyImageSet", "readyUpdate"}

\* ------------------------------------------------------------------ Monitor

\* A return of Monitor or Compliance after the custom resource was found: the
\* deferred SetMetaData runs on the way out.
ReturnDeferred(S, c, instance, exit, requeueAfter, err) ==
    Return(SetMetaData(S, c, instance), exit, requeueAfter, err)

\* The data of the embedded alertmanager-config.yaml.
DefaultAlertmanagerConfig == "default"

\* rsecret.CopyToNamespace: the data under a new ObjectMeta.
CopyToNamespace(secret) == [secret EXCEPT !.owners = {}]

\* ReadAlertmanagerConfigSecret with a fault: the copy of the secret found in
\* tigera-prometheus is created at once, whatever its data.
ReadAlertmanagerConfigSecret_CreateAtOnce(objs, io) ==
    LET operatorKey == Key(OperatorNamespace, AlertmanagerConfigSecret)
        prometheusKey == Key(TigeraPrometheusNamespace, AlertmanagerConfigSecret)
        defaultConfigSecret == ConfigSecret(DefaultAlertmanagerConfig)
        Failed == [secret |-> NoObj, createInOperatorNamespace |-> FALSE, err |-> TRUE,
                   objects |-> objs]
        Found(secret, create, after) ==
            [secret |-> secret, createInOperatorNamespace |-> create, err |-> FALSE,
             objects |-> after]
    IN IF io.at = "getSecretOperator" THEN Failed
       ELSE IF objs[operatorKey].exists THEN Found(objs[operatorKey], FALSE, objs)
       ELSE IF io.at = "getSecretPrometheus" THEN Failed
       ELSE IF objs[prometheusKey].exists
       THEN IF io.at = "createSecret" THEN Failed
            ELSE Found(CopyToNamespace(objs[prometheusKey]),
                       defaultConfigSecret.data = objs[prometheusKey].data,
                       [objs EXCEPT ![operatorKey] = CopyToNamespace(objs[prometheusKey])])
       ELSE Found(defaultConfigSecret, TRUE, objs)

\* ReadAlertmanagerConfigSecret with a fault: the secret found in
\* tigera-prometheus is taken for the default one without comparing its data.
ReadAlertmanagerConfigSecret_NoCompare(objs, io) ==
    LET operatorKey == Key(OperatorNamespace, AlertmanagerConfigSecret)
        prometheusKey == Key(TigeraPrometheusNamespace, AlertmanagerConfigSecret)
        defaultConfigSecret == ConfigSecret(DefaultAlertmanagerConfig)
        Failed == [secret |-> NoObj, createInOperatorNamespace |-> FALSE, err |-> TRUE,
                   objects |-> objs]
        Found(secret, create, after) ==
            [secret |-> secret, createInOperatorNamespace |-> create, err |-> FALSE,
             objects |-> after]
    IN IF io.at = "getSecretOperator" THEN Failed
       ELSE IF objs[operatorKey].exists THEN Found(objs[operatorKey], FALSE, objs)
       ELSE IF io.at = "getSecretPrometheus" THEN Failed
       ELSE IF objs[prometheusKey].exists
       THEN Found(CopyToNamespace(objs[prometheusKey]), TRUE, objs)
       ELSE Found(defaultConfigSecret, TRUE, objs)

\* readAlertmanagerConfigSecret: the secret, createInOperatorNamespace, whether
\* it failed, and the objects after the r.client.Create it may make.
ReadAlertmanagerConfigSecret(objs, io) ==
    LET operatorKey == Key(OperatorNamespace, AlertmanagerConfigSecret)
        prometheusKey == Key(TigeraPrometheusNamespace, AlertmanagerConfigSecret)
        defaultConfigSecret == ConfigSecret(DefaultAlertmanagerConfig)
        Failed == [secret |-> NoObj, createInOperatorNamespace |-> FALSE, err |-> TRUE,
                   objects |-> objs]
        Found(secret, create, after) ==
            [secret |-> secret, createInOperatorNamespace |-> create, err |-> FALSE,
             objects |-> after]
    IN IF io.at = "getSecretOperator" THEN Failed
       ELSE IF objs[operatorKey].exists THEN Found(objs[operatorKey], FALSE, objs)
       ELSE IF io.at = "getSecretPrometheus" THEN Failed
       ELSE IF objs[prometheusKey].exists
       THEN IF defaultConfigSecret.data = objs[prometheusKey].data
            THEN Found(CopyToNamespace(objs[prometheusKey]), TRUE, objs)
            ELSE IF io.at = "createSecret" THEN Failed
            ELSE Found(CopyToNamespace(objs[prometheusKey]), FALSE,
                       [objs EXCEPT ![operatorKey] = CopyToNamespace(objs[prometheusKey])])
       ELSE Found(defaultConfigSecret, TRUE, objs)

\* monitor.Monitor(cfg): the Prometheus workloads and the Alertmanager
\* configuration secret copied into the tigera-prometheus namespace.
MonitorRender(alertmanagerConfigSecret) ==
    {Entry(Key(TigeraPrometheusNamespace, "calico-node-prometheus"),
           Workload(<<Unresolved(ComponentPrometheus)>>)),
     Entry(Key(TigeraPrometheusNamespace, AlertmanagerConfigSecret),
           CopyToNamespace(alertmanagerConfigSecret))}

\* MonitorComponents with a fault: the passthrough of the Alertmanager
\* configuration secret is left out.
MonitorComponents_NoPassthrough(objs, alertmanagerConfigSecret, createInOperatorNamespace) ==
    LET serverTLSSecret ==
            GetOrCreateKeyPair(objs, Key(OperatorNamespace, PrometheusTLSSecretName), 1)
        clientTLSSecret ==
            GetOrCreateKeyPair(objs, Key(OperatorNamespace, PrometheusClientTLSSecretName), 2)
    IN <<MonitorRender(alertmanagerConfigSecret),
         KeyPairObjects(serverTLSSecret, PrometheusTLSSecretName, TigeraPrometheusNamespace)
            \cup KeyPairObjects(clientTLSSecret, PrometheusClientTLSSecretName,
                                TigeraPrometheusNamespace)>>

\* MonitorComponents with a fault: the Alertmanager configuration secret is
\* passed through whether or not it is to be created in the operator namespace.
MonitorComponents_AlwaysPassthrough(objs, alertmanagerConfigSecret, createInOperatorNamespace) ==
    LET serverTLSSecret ==
            GetOrCreateKeyPair(objs, Key(OperatorNamespace, PrometheusTLSSecretName), 1)
        clientTLSSecret ==
            GetOrCreateKeyPair(objs, Key(OperatorNamespace, PrometheusClientTLSSecretName), 2)
    IN <<MonitorRender(alertmanagerConfigSecret),
         KeyPairObjects(serverTLSSecret, PrometheusTLSSecretName, TigeraPrometheusNamespace)
            \cup KeyPairObjects(clientTLSSecret, PrometheusClientTLSSecretName,
                                TigeraPrometheusNamespace),
         NewPassthrough(Key(OperatorNamespace, AlertmanagerConfigSecret),
                        alertmanagerConfigSecret)>>

\* The components Reconcile renders, in the order it applies them.
MonitorComponents(objs, alertmanagerConfigSecret, createInOperatorNamespace) ==
    LET serverTLSSecret ==
            GetOrCreateKeyPair(objs, Key(OperatorNamespace, PrometheusTLSSecretName), 1)
        clientTLSSecret ==
            GetOrCreateKeyPair(objs, Key(OperatorNamespace, PrometheusClientTLSSecretName), 2)
    IN <<MonitorRender(alertmanagerConfigSecret),
         KeyPairObjects(serverTLSSecret, PrometheusTLSSecretName, TigeraPrometheusNamespace)
            \cup KeyPairObjects(clientTLSSecret, PrometheusClientTLSSecretName,
                                TigeraPrometheusNamespace)>>
       \o (IF createInOperatorNamespace
           THEN <<NewPassthrough(Key(OperatorNamespace, AlertmanagerConfigSecret),
                                 alertmanagerConfigSecret)>>
           ELSE <<>>)

\* Reconcile from readAlertmanagerConfigSecret to the end.
MonitorApply(S, instance, io) ==
    LET c == "Monitor"
        Fail(T, reason, exit) == ReturnDeferred(SetDegraded(T, c, reason), c, instance, exit, 0, TRUE)
        Ready(S2) ==
            IF ~IsAvailable(c) THEN ReturnDeferred(S2, c, instance, "notAvailable", 30, FALSE)
            ELSE IF io.at = "readyUpdate" THEN Fail(S2, "ResourceUpdateError", "readyUpdateError")
            ELSE ReturnDeferred(StatusUpdate(S2, c, [instance EXCEPT !.state = TigeraStatusReady]),
                                c, instance, "ready", 0, FALSE)
        Applied(components, n, S1) ==
            IF n < Len(components) THEN Fail(S1, "ResourceUpdateError", "applyError")
            ELSE Ready(ClearDegraded(S1, c))
        Apply(S0, components, n) ==
            Applied(components, n,
                    [S0 EXCEPT !.objects = CreateOrUpdateOrDelete(S0.objects, components, n, c)])
        Components(S0, components) ==
            Apply(S0, components, IF io.at = "apply" /\ io.n \in 1..Len(components)
                                  THEN io.n - 1 ELSE Len(components))
        Read(read) ==
            IF read.err THEN Fail(S, "ResourceReadError", "alertmanagerConfigError")
            ELSE IF io.at = "applyImageSet" \/ res.imageSet = "incomplete"
            THEN Fail([S EXCEPT !.objects = read.objects], "ResourceUpdateError", "imageSetError")
            ELSE Components([S EXCEPT !.objects = read.objects],
                            ApplyImageSet(MonitorComponents(read.objects, read.secret,
                                                            read.createInOperatorNamespace)))
    IN Read(ReadAlertmanagerConfigSecret(S.objects, io))

\* utils.IsV3NetworkPolicyReconcilable: the tier the policies go into exists.
IsV3NetworkPolicyReconcilable == res.tier

\* Reconcile from the ManagementClusterConnection query to the allow-tigera tier.
MonitorNetworkPolicy(S, instance, io) ==
    LET c == "Monitor"
        monitorReconcilesV3NetworkPolicyRequirements == res.mcc /\ ~res.certMgmt
        Wait(reason, exit) == ReturnDeferred(SetDegraded(S, c, reason), c, instance, exit, 10, FALSE)
        Fail(reason, exit) == ReturnDeferred(SetDegraded(S, c, reason), c, instance, exit, 0, TRUE)
    IN IF io.at = "getManagementClusterConnection"
       THEN Fail("Error reading ManagementClusterConnection", "managementClusterConnectionError")
       ELSE IF monitorReconcilesV3NetworkPolicyRequirements /\ ~IsV3NetworkPolicyReconcilable
       THEN MonitorApply(S, instance, io)
       ELSE IF ~ready.monitorTierWatch
       THEN Wait("Waiting for Tier watch to be established", "tierWatchNotReady")
       ELSE IF ~ready.monitorPolicyWatches
       THEN Wait("Waiting for NetworkPolicy watches to be established", "policyWatchesNotReady")
       ELSE IF monitorReconcilesV3NetworkPolicyRequirements THEN MonitorApply(S, instance, io)
       ELSE IF io.at = "getTier" THEN Fail("Error querying allow-tigera tier", "tierError")
       ELSE IF ~res.tier
       THEN Wait("Waiting for allow-tigera tier to be created", "tierNotFound")
       ELSE MonitorApply(S, instance, io)

\* Reconcile from the Installation query to the key validator configuration.
MonitorInstallation(S, instance, io) ==
    LET c == "Monitor"
        Fail(reason, exit) == ReturnDeferred(SetDegraded(S, c, reason), c, instance, exit, 0, TRUE)
    IN IF io.at = "getInstallation" THEN Fail("ResourceReadError", "installationError")
       ELSE IF res.installation = "absent" THEN Fail("ResourceNotFound", "installationNotFound")
       ELSE IF io.at = "getPullSecrets" THEN Fail("ResourceReadError", "pullSecretsError")
       ELSE IF ~ready.prometheus THEN Fail("ResourceNotReady", "prometheusNotReady")
       ELSE IF io.at = "createCertificateManager"
       THEN Fail("ResourceCreateError", "certificateManagerError")
       ELSE IF io.at = "getOrCreateKeyPair" THEN Fail("ResourceCreateError", "keyPairError")
       ELSE IF io.at = "getCertificate" THEN Fail("ResourceReadError", "certificateError")
       ELSE IF io.at = "getAuthentication" THEN Fail("ResourceReadError", "authenticationError")
       ELSE IF res.auth = "notready"
       THEN ReturnDeferred(SetDegraded(S, c, "ResourceNotReady"), c, instance,
                           "authenticationNotReady", 0, FALSE)
       ELSE IF io.at = "getKeyValidatorConfig"
       THEN Fail("ResourceUpdateError", "keyValidatorError")
       ELSE MonitorNetworkPolicy(S, instance, io)

\* status.UpdateStatusCondition as Monitor and Compliance call it, without a
\* generation: the condition keeps the generation the TigeraStatus observed.
UpdateStatusConditionObserved(statusConditions, conditions) ==
    [i \in 1..Len(conditions) |->
        UpdateStatusCondition(statusConditions, conditions,
                              conditions[i].observedGeneration)[i]]

\* ReconcileMonitor.Reconcile
MonitorReconcile(S, request, io) ==
    LET c == "Monitor"
        found == S.crs[c]
        S1 == OnCRFound(S, c)
        statusRequest == request.Name = ResourceName(c) /\ request.Namespace = ""
        instance == IF statusRequest /\ tigeraStatus[c].exists
                    THEN [found EXCEPT !.conditions =
                            UpdateStatusConditionObserved(found.conditions,
                                                          tigeraStatus[c].conditions)]
                    ELSE found
    IN IF io.at = "getMonitor"
       THEN Return(SetDegraded(S, c, "ResourceReadError"), "readError", 0, TRUE)
       ELSE IF ~found.exists THEN Return(OnCRNotFound(S, c), "notFound", 0, FALSE)
       ELSE IF statusRequest /\ (io.at = "getTigeraStatus" \/ ~tigeraStatus[c].exists)
       THEN ReturnDeferred(S1, c, found, "tigeraStatusError", 0, TRUE)
       ELSE IF statusRequest /\ io.at = "statusUpdate"
       THEN ReturnDeferred(S1, c, found, "statusUpdateError", 0, TRUE)
       ELSE MonitorInstallation(IF statusRequest THEN StatusUpdate(S1, c, instance) ELSE S1,
                                instance, io)

MonitorFaults ==
    {"getMonitor", "getTigeraStatus", "statusUpdate", "getInstallation", "getPullSecrets",
     "createCertificateManager", "getOrCreateKeyPair", "getCertificate",
     "getAuthentication", "getKeyValidatorConfig", "getManagementClusterConnection",
     "getTier", "getSecretOperator", "getSecretPrometheus", "createSecret",
     "applyImageSet", "readyUpdate"}

\* ------------------------------------------------------------------ Compliance

\* utils.IsAPIServerReady: the APIServer resource exists and its state is Ready.
IsAPIServerReady(S) ==
    S.crs["APIServer"].exists /\ S.crs["APIServer"].state = TigeraStatusReady

\* utils.IsFeatureActive(license, common.ComplianceFeature)
IsFeatureActive == res.license = "feature"

\* render.Compliance: the compliance server is only for standalone and
\* management clusters.
ComplianceRender ==
    {Entry(Key(ComplianceNamespace, "compliance-controller"),
           Workload(<<Unresolved(ComponentComplianceController)>>))}
    \cup (IF res.mcc THEN {}
          ELSE {Entry(Key(ComplianceNamespace, "compliance-server"),
                      Workload(<<Unresolved(ComponentComplianceServer)>>))})

\* The components Reconcile renders, in the order it applies them.
ComplianceComponents(objs) ==
    LET complianceServerCertSecret ==
            IF res.mcc THEN NoKeyPair
            ELSE GetOrCreateKeyPair(objs, Key(OperatorNamespace, ComplianceServerCertSecret), 1)
    IN <<ComplianceRender,
         KeyPairObjects(complianceServerCertSecret, ComplianceServerCertSecret,
                        ComplianceNamespace)>>

\* ComplianceApply with a fault: Ready is written without asking the status
\* manager whether the workloads are available.
ComplianceApply_ReadyUnchecked(S, instance, io) ==
    LET c == "Compliance"
        hasNoLicense == ~IsFeatureActive
        Ready(S2) ==
            IF io.at = "readyUpdate"
            THEN ReturnDeferred(S2, c, instance, "readyUpdateError", 0, TRUE)
            ELSE ReturnDeferred(StatusUpdate(S2, c, [instance EXCEPT !.state = TigeraStatusReady]),
                                c, instance, "ready", 0, FALSE)
        Applied(components, n, S1) ==
            IF n < Len(components)
            THEN ReturnDeferred(SetDegraded(S1, c, "ResourceUpdateError"), c, instance,
                                "applyError", 0, TRUE)
            ELSE IF hasNoLicense
            THEN ReturnDeferred(SetDegraded(S1, c, "ResourceValidationError"), c, instance,
                                "notLicensed", 0, FALSE)
            ELSE Ready(ClearDegraded(S1, c))
        Apply(components, n) ==
            Applied(components, n,
                    [S EXCEPT !.objects = CreateOrUpdateOrDelete(S.objects, components, n, c)])
        Components(components) ==
            Apply(components, IF io.at = "apply" /\ io.n \in 1..Len(components)
                              THEN io.n - 1 ELSE Len(components))
    IN Components(ApplyImageSet(ComplianceComponents(S.objects)))

\* Reconcile from the component loop on.
ComplianceApply(S, instance, io) ==
    LET c == "Compliance"
        hasNoLicense == ~IsFeatureActive
        Ready(S2) ==
            IF ~IsAvailable(c) THEN ReturnDeferred(S2, c, instance, "notAvailable", 30, FALSE)
            ELSE IF io.at = "readyUpdate"
            THEN ReturnDeferred(S2, c, instance, "readyUpdateError", 0, TRUE)
            ELSE ReturnDeferred(StatusUpdate(S2, c, [instance EXCEPT !.state = TigeraStatusReady]),
                                c, instance, "ready", 0, FALSE)
        Applied(components, n, S1) ==
            IF n < Len(components)
            THEN ReturnDeferred(SetDegraded(S1, c, "ResourceUpdateError"), c, instance,
                                "applyError", 0, TRUE)
            ELSE IF hasNoLicense
            THEN ReturnDeferred(SetDegraded(S1, c, "ResourceValidationError"), c, instance,
                                "notLicensed", 0, FALSE)
            ELSE Ready(ClearDegraded(S1, c))
        Apply(components, n) ==
            Applied(components, n,
                    [S EXCEPT !.objects = CreateOrUpdateOrDelete(S.objects, components, n, c)])
        Components(components) ==
            Apply(components, IF io.at = "apply" /\ io.n \in 1..Len(components)
                              THEN io.n - 1 ELSE Len(components))
    IN Components(ApplyImageSet(ComplianceComponents(S.objects)))

\* Reconcile from the Installation query to the image set.
ComplianceInstallation(S, instance, io) ==
    LET c == "Compliance"
        Fail(reason, exit) == ReturnDeferred(SetDegraded(S, c, reason), c, instance, exit, 0, TRUE)
        Stop(reason, exit) == ReturnDeferred(SetDegraded(S, c, reason), c, instance, exit, 0, FALSE)
    IN IF io.at = "getInstallation" THEN Fail("ResourceReadError", "installationError")
       ELSE IF res.installation = "absent" THEN Fail("ResourceNotFound", "installationNotFound")
       ELSE IF io.at = "getPullSecrets" THEN Fail("ResourceReadError", "pullSecretsError")
       ELSE IF io.at = "getElasticsearchClusterConfig"
       THEN Fail("ResourceReadError", "clusterConfigError")
       ELSE IF ~res.esConfig THEN Stop("ResourceNotReady", "clusterConfigNotFound")
       ELSE IF io.at = "getManagementCluster"
       THEN Fail("ResourceReadError", "managementClusterError")
       ELSE IF io.at = "getManagementClusterConnection"
       THEN Fail("ResourceReadError", "managementClusterConnectionError")
       ELSE IF res.mcc /\ res.mc THEN Fail("ResourceValidationError", "bothManagement")
       ELSE IF io.at = "getElasticsearchSecrets"
       THEN Fail("ResourceReadError", "elasticsearchSecretsError")
       ELSE IF ~res.esSecrets THEN Stop("ResourceNotReady", "elasticsearchSecretsNotFound")
       ELSE IF io.at = "createCertificateManager"
       THEN Fail("ResourceCreateError", "certificateManagerError")
       ELSE IF io.at = "getCertificate" THEN Fail("ResourceValidationError", "certificateError")
       ELSE IF ~res.esgwCert THEN Stop("ResourceNotReady", "gatewayCertificateNotFound")
       ELSE IF ~res.mcc /\ io.at = "getOrCreateKeyPair"
       THEN Fail("ResourceValidationError", "keyPairError")
       ELSE IF io.at = "getAuthentication" THEN Fail("ResourceReadError", "authenticationError")
       ELSE IF res.auth = "notready" THEN Stop("ResourceNotReady", "authenticationNotReady")
       ELSE IF io.at = "getKeyValidatorConfig"
       THEN Fail("ResourceValidationError", "keyValidatorError")
       ELSE IF io.at = "render" THEN Fail("ResourceRenderingError", "renderError")
       ELSE IF io.at = "applyImageSet" \/ res.imageSet = "incomplete"
       THEN Fail("ResourceUpdateError", "imageSetError")
       ELSE ComplianceApply(S, instance, io)

\* Reconcile from the API server check to the license.
CompliancePrerequisites(S, instance, io) ==
    LET c == "Compliance"
        Wait(reason, exit) == ReturnDeferred(SetDegraded(S, c, reason), c, instance, exit, 10, FALSE)
    IN IF ~IsAPIServerReady(S)
       THEN ReturnDeferred(SetDegraded(S, c, "ResourceNotReady"), c, instance,
                           "apiServerNotReady", 0, FALSE)
       ELSE IF ~ready.compliancePolicyWatches
       THEN Wait("Waiting for NetworkPolicy watches to be established", "policyWatchesNotReady")
       ELSE IF io.at = "getTier"
       THEN ReturnDeferred(SetDegraded(S, c, "Error querying allow-tigera tier"), c, instance,
                           "tierError", 0, TRUE)
       ELSE IF ~res.tier
       THEN Wait("Waiting for allow-tigera tier to be created", "tierNotFound")
       ELSE IF ~ready.licenseAPI THEN Wait("ResourceNotReady", "licenseAPINotReady")
       ELSE IF res.license = "absent" THEN Wait("ResourceNotFound", "licenseNotFound")
       ELSE IF io.at = "fetchLicenseKey" THEN Wait("ResourceReadError", "licenseError")
       ELSE ComplianceInstallation(S, instance, io)

\* ComplianceReconcile with a fault: a Compliance resource that is not found is
\* reported degraded and returned as an error.
ComplianceReconcile_NotFoundError(S, request, io) ==
    LET c == "Compliance"
        found == S.crs[c]
        S1 == OnCRFound(S, c)
        statusRequest == request.Name = ResourceName(c) /\ request.Namespace = ""
        instance == IF statusRequest /\ tigeraStatus[c].exists
                    THEN [found EXCEPT !.conditions =
                            UpdateStatusConditionObserved(found.conditions,
                                                          tigeraStatus[c].conditions)]
                    ELSE found
    IN IF io.at = "getCompliance"
       THEN Return(SetDegraded(S, c, "ResourceReadError"), "readError", 0, TRUE)
       ELSE IF ~found.exists THEN Return(SetDegraded(S, c, "ResourceNotFound"), "notFound", 0, TRUE)
       ELSE IF statusRequest /\ (io.at = "getTigeraStatus" \/ ~tigeraStatus[c].exists)
       THEN ReturnDeferred(S1, c, found, "tigeraStatusError", 0, TRUE)
       ELSE IF statusRequest /\ io.at = "statusUpdate"
       THEN ReturnDeferred(S1, c, found, "statusUpdateError", 0, TRUE)
       ELSE CompliancePrerequisites(IF statusRequest THEN StatusUpdate(S1, c, instance) ELSE S1,
                                    instance, io)

\* ReconcileCompliance.Reconcile
ComplianceReconcile(S, request, io) ==
    LET c == "Compliance"
        found == S.crs[c]
        S1 == OnCRFound(S, c)
        statusRequest == request.Name = ResourceName(c) /\ request.Namespace = ""
        instance == IF statusRequest /\ tigeraStatus[c].exists
                    THEN [found EXCEPT !.conditions =
                            UpdateStatusConditionObserved(found.conditions,
                                                          tigeraStatus[c].conditions)]
                    ELSE found
    IN IF io.at = "getCompliance"
       THEN Return(SetDegraded(S, c, "ResourceReadError"), "readError", 0, TRUE)
       ELSE IF ~found.exists THEN Return(OnCRNotFound(S, c), "notFound", 0, FALSE)
       ELSE IF statusRequest /\ (io.at = "getTigeraStatus" \/ ~tigeraStatus[c].exists)
       THEN ReturnDeferred(S1, c, found, "tigeraStatusError", 0, TRUE)
       ELSE IF statusRequest /\ io.at = "statusUpdate"
       THEN ReturnDeferred(S1, c, found, "statusUpdateError", 0, TRUE)
       ELSE CompliancePrerequisites(IF statusRequest THEN StatusUpdate(S1, c, instance) ELSE S1,
                                    instance, io)

ComplianceFaults ==
    {"getCompliance", "getTigeraStatus", "statusUpdate", "getTier", "fetchLicenseKey",
     "getInstallation", "getPullSecrets", "getElasticsearchClusterConfig",
     "getManagementCluster", "getManagementClusterConnection", "getElasticsearchSecrets",
     "createCertificateManager", "getCertificate", "getOrCreateKeyPair",
     "getAuthentication", "getKeyValidatorConfig", "render", "applyImageSet", "readyUpdate"}

\* ------------------------------------------------------------------ watches

\* The controllers whose add() watches a resource the reconcilers only read.
\* The tier and the license are watched once their watch goroutine is ready; the
\* Compliance controller watches no tier, and nobody watches the Elasticsearch
\* gateway's public certificate (relasticsearch.PublicCertSecret).
ResourceWatchers(dim) ==
    CASE dim \in {"installation", "certMgmt", "imageSet", "mcc", "auth"} -> Controllers
      [] dim \in {"mc"} -> {"APIServer", "Compliance"}
      [] dim = "amazon" -> {"APIServer"}
      [] dim = "tier" -> IF ready.monitorTierWatch THEN {"Monitor"} ELSE {}
      [] dim = "license" -> IF ready.licenseAPI THEN {"Compliance"} ELSE {}
      [] dim \in {"esConfig", "esSecrets"} -> {"Compliance"}
      [] OTHER -> {}

\* The controllers whose add() watches the secret of a key (utils.AddSecretsWatch).
SecretWatchers(key) ==
    (IF key \in {Key(OperatorNamespace, ProjectCalicoApiServerTLSSecretName(Enterprise)),
                 Key(OperatorNamespace, ProjectCalicoApiServerTLSSecretName(Calico)),
                 Key(OperatorNamespace, PacketCaptureCertSecret),
                 Key(OperatorNamespace, VoltronTunnelSecretName),
                 Key(APIServerNamespace(Enterprise), VoltronTunnelSecretName)}
     THEN {"APIServer"} ELSE {})
    \cup (IF key = Key(OperatorNamespace, PrometheusTLSSecretName) THEN {"Monitor"} ELSE {})
    \cup (IF key \in {Key(OperatorNamespace, ComplianceServerCertSecret),
                      Key(ComplianceNamespace, ComplianceServerCertSecret)}
          THEN {"Compliance"} ELSE {})

\* The controllers that watch the custom resource of controller c: its own, and
\* for the APIServer also Compliance (utils.AddAPIServerWatch).
CRWatchers(c) == IF c = "APIServer" THEN {"APIServer", "Compliance"} ELSE {c}

\* The controllers a call's writes notify: those watching a custom resource or
\* a secret it changed.
WriteWatchers(out) ==
    UNION {CRWatchers(c) : c \in {d \in Controllers : out.crs[d] # crs[d]}}
    \cup UNION {SecretWatchers(k) : k \in {j \in ObjectKeys : out.objects[j] # objects[j]}}

\* ------------------------------------------------------------------ controller

\* What the controller does with a request once Reconcile returned.
Requeue(result, err) ==
    IF err THEN "rateLimited"
    ELSE IF result.RequeueAfter > 0 THEN "after"
    ELSE IF result.Requeue THEN "rateLimited"
    ELSE "forget"

NoCall ==
    [ctrl |-> "none", request |-> ObjectRequest, io |-> NoFault,
     result |-> [Requeue |-> FALSE, RequeueAfter |-> 0], err |-> FALSE, exit |-> "",
     requeue |-> "forget"]

Current == [crs |-> crs, objects |-> objects, status |-> status]

Reconcile(c, request, io) ==
    CASE c = "APIServer" -> APIServerReconcile(Current, request, io)
      [] c = "Monitor" -> MonitorReconcile(Current, request, io)
      [] c = "Compliance" -> ComplianceReconcile(Current, request, io)

Faults(c) ==
    {Fault(at) : at \in CASE c = "APIServer" -> APIServerFaults
                          [] c = "Monitor" -> MonitorFaults
                          [] c = "Compliance" -> ComplianceFaults}
    \cup {[at |-> "apply", n |-> n] : n \in 1..5}

\* A worker of controller c takes a request off the queue, calls Reconcile and
\* requeues the request or forgets it. io is the API call that fails in this
\* call, if any: a failure is a change of the environment.
Process(c, request, io, out, clean) ==
    /\ request \in queue[c]
    /\ io # NoFault =>
          /\ events < MaxEvents
          /\ out # clean
    /\ LET again == Requeue(out.result, out.err)
       IN /\ crs' = out.crs
          /\ objects' = out.objects
          /\ status' = out.status
          /\ queue' = [d \in Controllers |->
                         ((IF d = c THEN queue[d] \ {request} ELSE queue[d])
                          \cup (IF d = c /\ again # "forget" THEN {request} ELSE {})
                          \cup (IF d \in WriteWatchers(out) THEN {ObjectRequest} ELSE {}))]
          /\ last' = [ctrl |-> c, request |-> request, io |-> io, result |-> out.result,
                      err |-> out.err, exit |-> out.exit, requeue |-> again]
          /\ events' = IF io = NoFault THEN events ELSE events + 1
    /\ UNCHANGED <<tigeraStatus, res, ready>>

ReconcileAPIServer ==
    \E request \in Requests("APIServer"), io \in {NoFault} \cup Faults("APIServer") :
        \E out \in {APIServerReconcile(Current, request, io)} :
            Process("APIServer", request, io, out, APIServerReconcile(Current, request, NoFault))

ReconcileMonitor ==
    \E request \in Requests("Monitor"), io \in {NoFault} \cup Faults("Monitor") :
        \E out \in {MonitorReconcile(Current, request, io)} :
            Process("Monitor", request, io, out, MonitorReconcile(Current, request, NoFault))

ReconcileCompliance ==
    \E request \in Requests("Compliance"), io \in {NoFault} \cup Faults("Compliance") :
        \E out \in {ComplianceReconcile(Current, request, io)} :
            Process("Compliance", request, io, out, ComplianceReconcile(Current, request, NoFault))

\* ------------------------------------------------------------------ environment

Enqueue(watchers, request) ==
    queue' = [d \in Controllers |->
                IF d \in watchers THEN queue[d] \cup {request[d]} ELSE queue[d]]

ObjectRequestFor == [d \in Controllers |-> ObjectRequest]

ResourceValues(dim) ==
    CASE dim = "installation" -> {"absent", "", Calico, Enterprise}
      [] dim = "imageSet" -> {"absent", "complete", "incomplete"}
      [] dim = "amazon" -> {"absent", "present"}
      [] dim = "auth" -> {"absent", "notready", "ready"}
      [] dim = "license" -> {"absent", "nofeature", "feature"}
      [] OTHER -> BOOLEAN

ResourceDims ==
    {"installation", "certMgmt", "imageSet", "mc", "mcc", "amazon", "auth", "tier",
     "license", "esConfig", "esSecrets", "esgwCert"}

\* Somebody creates, changes or deletes a resource the reconcilers read.
ResourceChange ==
    \E dim \in ResourceDims : \E v \in ResourceValues(dim) :
        /\ events < MaxEvents
        /\ res[dim] # v
        /\ dim = "amazon" => res.amazon # "nocrd"
        /\ res' = [res EXCEPT ![dim] = v]
        /\ Enqueue(ResourceWatchers(dim), ObjectRequestFor)
        /\ events' = events + 1
        /\ last' = NoCall
        /\ UNCHANGED <<crs, tigeraStatus, ready, objects, status>>

\* The workloads a status manager monitors become ready or stop being ready.
\* No watch of the controller sees it.
AvailabilityChange ==
    \E c \in Controllers :
        /\ events < MaxEvents
        /\ res' = [res EXCEPT !.available[c] = ~res.available[c]]
        /\ events' = events + 1
        /\ last' = NoCall
        /\ UNCHANGED <<crs, tigeraStatus, ready, objects, status, queue>>

ReadyFlags ==
    {"prometheus", "monitorTierWatch", "monitorPolicyWatches", "licenseAPI",
     "compliancePolicyWatches"}

\* A goroutine started by Add establishes its watch and marks its flag ready.
WatchReady ==
    \E f \in ReadyFlags :
        /\ ~ready[f]
        /\ ready' = [ready EXCEPT ![f] = TRUE]
        /\ last' = NoCall
        /\ UNCHANGED <<crs, tigeraStatus, res, objects, status, queue, events>>

Condition(type, st, reason, message) ==
    [type |-> type, status |-> st, reason |-> reason, message |-> message,
     observedGeneration |-> 1]

AllAvailable ==
    Condition(ComponentAvailable, "True", "AllObjectsAvailable", "All Objects are available")

NotApplicable(type) == Condition(type, "False", "NotApplicable", "Not Applicable")

\* The conditions a status manager writes: Available, Progressing, Degraded, in
\* that order.
TigeraStatusConditions ==
    {<<>>,
     <<AllAvailable>>,
     <<AllAvailable,
       Condition(ComponentProgressing, "True", "ResourceNotReady",
                 "Progressing Installation.operatorv1.tigera.io"),
       Condition(ComponentDegraded, "True", "ResourceUpdateError",
                 "Error resolving ImageSet for components")>>,
     <<AllAvailable, NotApplicable(ComponentProgressing), NotApplicable(ComponentDegraded)>>,
     <<NotApplicable(ComponentAvailable),
       Condition(ComponentProgressing, "True", "ResourceNotReady",
                 "All resources are not available"),
       NotApplicable(ComponentDegraded)>>,
     <<Condition(ComponentProgressing, "True", "ResourceNotReady",
                 "All resources are not available"),
       Condition(ComponentDegraded, "True", "ResourceReadError", "Error querying installation")>>}

NoTigeraStatus == [exists |-> FALSE, conditions |-> <<>>]

\* The status manager writes the TigeraStatus of controller c, or someone
\* deletes it.
TigeraStatusChange ==
    \E c \in Controllers :
      \E ts \in {NoTigeraStatus} \cup {[exists |-> TRUE, conditions |-> v] : v \in TigeraStatusConditions} :
        /\ events < MaxEvents
        /\ crs[c].exists
        /\ tigeraStatus[c] # ts
        /\ tigeraStatus' = [tigeraStatus EXCEPT ![c] = ts]
        /\ Enqueue({c}, [d \in Controllers |-> StatusRequest(d)])
        /\ events' = events + 1
        /\ last' = NoCall
        /\ UNCHANGED <<crs, res, ready, objects, status>>

\* The secrets a user may supply, replace or delete, with the content a user
\* may give them.
UserSecrets(key) ==
    IF key[2] = AlertmanagerConfigSecret
    THEN {ConfigSecret(DefaultAlertmanagerConfig), ConfigSecret("custom")}
    ELSE {TLSSecret(UserCA, FreshSerial(objects, 1))}

UserSecretKeys ==
    {Key(OperatorNamespace, ProjectCalicoApiServerTLSSecretName(Enterprise)),
     Key(OperatorNamespace, PacketCaptureCertSecret),
     Key(OperatorNamespace, PrometheusTLSSecretName),
     Key(OperatorNamespace, AlertmanagerConfigSecret),
     Key(TigeraPrometheusNamespace, AlertmanagerConfigSecret),
     Key(OperatorNamespace, ComplianceServerCertSecret)}

\* The controller whose reconciler reads the objects under a key.
Reader(key) ==
    IF key \in APIServerKeys THEN "APIServer"
    ELSE IF key \in MonitorKeys THEN "Monitor" ELSE "Compliance"

\* A user creates, replaces or deletes a secret.
UserSecretChange ==
    \E key \in UserSecretKeys : \E obj \in {NoObj} \cup UserSecrets(key) :
        /\ events < MaxEvents
        /\ crs[Reader(key)].exists
        /\ objects[key] # obj
        /\ objects' = [objects EXCEPT ![key] = obj]
        /\ Enqueue(SecretWatchers(key), ObjectRequestFor)
        /\ events' = events + 1
        /\ last' = NoCall
        /\ UNCHANGED <<crs, tigeraStatus, res, ready, status>>

NoCR == [exists |-> FALSE, generation |-> 0, conditions |-> <<>>, state |-> ""]

\* A user deletes a custom resource, or changes its spec, which bumps its
\* generation.
CustomResourceChange ==
    \E c \in Controllers :
      \E cr \in {NoCR, [crs[c] EXCEPT !.generation = @ + 1]} :
        /\ events < MaxEvents
        /\ crs[c].exists
        /\ crs' = [crs EXCEPT ![c] = cr]
        /\ Enqueue(CRWatchers(c), ObjectRequestFor)
        /\ events' = events + 1
        /\ last' = NoCall
        /\ UNCHANGED <<tigeraStatus, res, ready, objects, status>>

\* ------------------------------------------------------------------ initial states

\* A cluster is the baseline below (an Enterprise installation with every
\* dependency of the reconcilers in place) with at most MaxDeviations of these
\* deviations.
Deviations(c) ==
    {"installation absent", "installation not ready", "installation calico",
     "certificate management", "imageset", "imageset incomplete",
     "management cluster connection", "authentication", "authentication not ready",
     "not available", "no tigerastatus", "stale conditions"}
    \cup CASE c = "APIServer" ->
                {"management cluster", "amazon", "no amazon crd", "user apiserver tls",
                 "user packetcapture tls"}
           [] c = "Monitor" ->
                {"no tier", "prometheus not ready", "tier watch not ready",
                 "policy watches not ready", "user prometheus tls",
                 "alertmanager config", "custom alertmanager config",
                 "upgraded alertmanager config", "custom upgraded alertmanager config"}
           [] c = "Compliance" ->
                {"management cluster", "no tier", "policy watches not ready",
                 "license api not ready", "no license", "license without feature",
                 "no cluster config", "no elasticsearch secrets",
                 "no gateway certificate", "user compliance tls"}

InitCRs(c, D) ==
    [d \in Controllers |->
        IF d = c \/ (c = "Compliance" /\ d = "APIServer")
        THEN [exists |-> TRUE, generation |-> 2,
              conditions |-> IF d = c /\ "stale conditions" \in D
                             THEN UpdateStatusCondition(<<>>, <<AllAvailable>>, 1)
                             ELSE <<>>,
              state |-> ""]
        ELSE NoCR]

InitTigeraStatus(c, D) ==
    [d \in Controllers |->
        IF d = c /\ "no tigerastatus" \notin D
        THEN [exists |-> TRUE,
              conditions |-> <<AllAvailable, NotApplicable(ComponentProgressing),
                               NotApplicable(ComponentDegraded)>>]
        ELSE NoTigeraStatus]

InitRes(c, D) ==
    [installation |-> IF "installation absent" \in D THEN "absent"
                      ELSE IF "installation not ready" \in D THEN ""
                      ELSE IF "installation calico" \in D THEN Calico ELSE Enterprise,
     certMgmt |-> "certificate management" \in D,
     imageSet |-> IF "imageset incomplete" \in D THEN "incomplete"
                  ELSE IF "imageset" \in D THEN "complete" ELSE "absent",
     mc |-> "management cluster" \in D,
     mcc |-> "management cluster connection" \in D,
     amazon |-> IF "no amazon crd" \in D THEN "nocrd"
                ELSE IF "amazon" \in D THEN "present" ELSE "absent",
     auth |-> IF "authentication not ready" \in D THEN "notready"
              ELSE IF "authentication" \in D THEN "ready" ELSE "absent",
     tier |-> "no tier" \notin D,
     license |-> IF "no license" \in D THEN "absent"
                 ELSE IF "license without feature" \in D THEN "nofeature" ELSE "feature",
     esConfig |-> "no cluster config" \notin D,
     esSecrets |-> "no elasticsearch secrets" \notin D,
     esgwCert |-> "no gateway certificate" \notin D,
     available |-> [d \in Controllers |-> ~(d = c /\ "not available" \in D)]]

InitReady(c, D) ==
    [prometheus |-> "prometheus not ready" \notin D,
     monitorTierWatch |-> "tier watch not ready" \notin D,
     monitorPolicyWatches |-> ~(c = "Monitor" /\ "policy watches not ready" \in D),
     licenseAPI |-> "license api not ready" \notin D,
     compliancePolicyWatches |-> ~(c = "Compliance" /\ "policy watches not ready" \in D)]

InitObjects(c, D) ==
    [key \in ObjectKeys |->
        CASE key = Key(OperatorNamespace, ProjectCalicoApiServerTLSSecretName(Enterprise))
                /\ "user apiserver tls" \in D -> TLSSecret(UserCA, 1)
          [] key = Key(OperatorNamespace, PacketCaptureCertSecret)
                /\ "user packetcapture tls" \in D -> TLSSecret(UserCA, 2)
          [] key = Key(OperatorNamespace, PrometheusTLSSecretName)
                /\ "user prometheus tls" \in D -> TLSSecret(UserCA, 1)
          [] key = Key(OperatorNamespace, ComplianceServerCertSecret)
                /\ "user compliance tls" \in D -> TLSSecret(UserCA, 1)
          [] key = Key(OperatorNamespace, AlertmanagerConfigSecret)
                /\ "alertmanager config" \in D -> ConfigSecret(DefaultAlertmanagerConfig)
          [] key = Key(OperatorNamespace, AlertmanagerConfigSecret)
                /\ "custom alertmanager config" \in D -> ConfigSecret("custom")
          [] key = Key(TigeraPrometheusNamespace, AlertmanagerConfigSecret)
                /\ "upgraded alertmanager config" \in D -> ConfigSecret(DefaultAlertmanagerConfig)
          [] key = Key(TigeraPrometheusNamespace, AlertmanagerConfigSecret)
                /\ "custom upgraded alertmanager config" \in D -> ConfigSecret("custom")
          [] OTHER -> NoObj]

InitStatus ==
    [c \in Controllers |-> [crFound |-> FALSE, degraded |-> FALSE, reason |-> "", generation |-> 0]]

\* The informers' initial lists enqueue a request for every object that exists.
InitQueue(c, D) ==
    [d \in Controllers |->
        (IF InitCRs(c, D)[d].exists THEN {ObjectRequest} ELSE {})
        \cup (IF InitTigeraStatus(c, D)[d].exists THEN {StatusRequest(d)} ELSE {})]

RECURSIVE SubsetsUpTo(_, _)
\* The subsets of S of at most k elements.
SubsetsUpTo(S, k) ==
    IF k = 0 THEN {{}}
    ELSE LET smaller == SubsetsUpTo(S, k - 1)
         IN smaller \cup {D \cup {x} : D \in smaller, x \in S}

Init ==
    \E c \in Controllers : \E D \in SubsetsUpTo(Deviations(c), MaxDeviations) :
        /\ crs = InitCRs(c, D)
        /\ tigeraStatus = InitTigeraStatus(c, D)
        /\ res = InitRes(c, D)
        /\ ready = InitReady(c, D)
        /\ objects = InitObjects(c, D)
        /\ status = InitStatus
        /\ queue = InitQueue(c, D)
        /\ last = NoCall
        /\ events = 0

Next ==
    \/ ReconcileAPIServer
    \/ ReconcileMonitor
    \/ ReconcileCompliance
    \/ ResourceChange
    \/ AvailabilityChange
    \/ WatchReady
    \/ TigeraStatusChange
    \/ UserSecretChange
    \/ CustomResourceChange

Spec == Init /\ [][Next]_vars

\* ------------------------------------------------------------------ properties

\* C1: applying is idempotent. When a Reconcile call of any of the three
\* reconcilers, none of whose API calls failed, has returned without an error,
\* calling Reconcile again for the same request with nothing changed in between
\* leaves every object and every custom resource as the first call left it and
\* returns the same result.
C1_Idempotent ==
    (last.ctrl # "none" /\ last.io = NoFault /\ ~last.err) =>
        LET again == Reconcile(last.ctrl, last.request, NoFault)
        IN /\ again.objects = objects
           /\ again.crs = crs
           /\ again.result = last.result
           /\ again.err = last.err

\* C1, reached: an APIServer Reconcile of a management cluster wrote Ready after
\* it generated the TLS secret and the tunnel secret.
C1_Witness ==
    /\ last.ctrl = "APIServer" /\ last.exit = "ready" /\ res.mc
    /\ objects[Key(OperatorNamespace, VoltronTunnelSecretName)].exists
    /\ objects[Key(OperatorNamespace, ProjectCalicoApiServerTLSSecretName(Enterprise))].issuer
         = OperatorCA

\* C2: reconciliation converges. A custom resource whose dependencies are all
\* present and ready is Ready, or a Reconcile for it is still to come: it is
\* never left short of Ready with nothing that triggers a further Reconcile.
C2_NeverStuck ==
    LET DependenciesReady(c) ==
            /\ res.installation \in {Calico, Enterprise}
            /\ res.imageSet # "incomplete"
            /\ res.auth # "notready"
            /\ ~(res.mc /\ res.mcc)
            /\ res.available[c]
            /\ c = "Monitor" =>
                  /\ ready.prometheus /\ ready.monitorTierWatch
                  /\ ready.monitorPolicyWatches /\ res.tier
            /\ c = "Compliance" =>
                  /\ IsAPIServerReady(Current)
                  /\ ready.compliancePolicyWatches /\ ready.licenseAPI /\ res.tier
                  /\ res.license = "feature"
                  /\ res.esConfig /\ res.esSecrets /\ res.esgwCert
    IN \A c \in Controllers :
          (crs[c].exists /\ DependenciesReady(c) /\ crs[c].state # TigeraStatusReady)
              => queue[c] # {}

C4_ObservedGeneration ==
    (/\ last.ctrl = "APIServer" /\ last.request = StatusRequest("APIServer") /\ ~last.err
     /\ crs["APIServer"].exists) =>
        \A i \in 1..Len(crs["APIServer"].conditions) :
            crs["APIServer"].conditions[i].observedGeneration = crs["APIServer"].generation

\* C4, reached: conditions were written at generation 2 from a TigeraStatus
\* that observed generation 1.
C4_Witness ==
    /\ last.ctrl = "APIServer" /\ last.request = StatusRequest("APIServer") /\ ~last.err
    /\ crs["APIServer"].generation = 2
    /\ Len(crs["APIServer"].conditions) >= 1
    /\ crs["APIServer"].conditions[1].observedGeneration = 2
    /\ tigeraStatus["APIServer"].conditions[1].observedGeneration = 1

\* C5: user-supplied TLS secrets are never adopted. When the API server TLS
\* secret and the packet capture TLS secret are the user's own in the operator
\* namespace, an APIServer Reconcile that returns without an error leaves both
\* there as they were, without owner references.
C5_UserSecretsNotAdopted ==
    [][LET supplied == {Key(OperatorNamespace, ProjectCalicoApiServerTLSSecretName(Enterprise)),
                        Key(OperatorNamespace, PacketCaptureCertSecret)}
       IN (/\ last'.ctrl = "APIServer" /\ ~last'.err
           /\ \A k \in supplied : /\ objects[k].exists
                                  /\ objects[k].issuer = UserCA
                                  /\ objects[k].owners = {})
          => \A k \in supplied : objects'[k] = objects[k]]_vars

\* C5, reached: Reconcile wrote Ready with both secrets the user's own, and
\* copied them into the namespaces of the workloads.
C5_Witness ==
    /\ last.ctrl = "APIServer" /\ last.exit = "ready"
    /\ \A k \in {Key(OperatorNamespace, ProjectCalicoApiServerTLSSecretName(Enterprise)),
                 Key(OperatorNamespace, PacketCaptureCertSecret)} :
          objects[k].exists /\ objects[k].issuer = UserCA /\ objects[k].owners = {}
    /\ objects[Key(APIServerNamespace(Enterprise),
                   ProjectCalicoApiServerTLSSecretName(Enterprise))].issuer = UserCA
    /\ objects[Key(PacketCaptureNamespace, PacketCaptureCertSecret)].issuer = UserCA

\* C6 as the specification states it: with neither TLS secret in the operator
\* namespace, an Enterprise Installation and no certificate management, every
\* APIServer Reconcile that returns without an error leaves both secrets in the
\* operator namespace with exactly one owner reference.
C6_AsStated ==
    [][LET managed == {Key(OperatorNamespace, ProjectCalicoApiServerTLSSecretName(Enterprise)),
                       Key(OperatorNamespace, PacketCaptureCertSecret)}
       IN (/\ last'.ctrl = "APIServer" /\ ~last'.err
           /\ res.installation = Enterprise /\ ~res.certMgmt
           /\ \A k \in managed : ~objects[k].exists)
          => \A k \in managed : objects'[k].exists /\ Cardinality(objects'[k].owners) = 1]_vars

\* C6: operator-managed TLS secrets are owned. With neither TLS secret in the
\* operator namespace, an Enterprise Installation and no certificate
\* management, an APIServer Reconcile that finds the APIServer resource, is not
\* for the "apiserver" TigeraStatus request and returns without an error leaves
\* both secrets in the operator namespace with exactly one owner reference.
C6_ManagedSecretsOwned ==
    [][LET managed == {Key(OperatorNamespace, ProjectCalicoApiServerTLSSecretName(Enterprise)),
                       Key(OperatorNamespace, PacketCaptureCertSecret)}
       IN (/\ last'.ctrl = "APIServer" /\ ~last'.err
           /\ crs["APIServer"].exists /\ last'.request # StatusRequest("APIServer")
           /\ res.installation = Enterprise /\ ~res.certMgmt
           /\ \A k \in managed : ~objects[k].exists)
          => \A k \in managed : objects'[k].exists /\ Cardinality(objects'[k].owners) = 1]_vars

\* C6, reached: Reconcile wrote Ready and both secrets are the operator's, owned
\* by the APIServer.
C6_Witness ==
    /\ last.ctrl = "APIServer" /\ last.exit = "ready"
    /\ res.installation = Enterprise /\ ~res.certMgmt
    /\ \A k \in {Key(OperatorNamespace, ProjectCalicoApiServerTLSSecretName(Enterprise)),
                 Key(OperatorNamespace, PacketCaptureCertSecret)} :
          objects[k].exists /\ objects[k].issuer = OperatorCA /\ objects[k].owners = {"APIServer"}

\* C7: with certificate management, an APIServer Reconcile that returns without
\* an error does not create the packet capture TLS secret in the operator
\* namespace.
C7_NoPacketCaptureSecret ==
    [][(/\ last'.ctrl = "APIServer" /\ ~last'.err
        /\ res.certMgmt
        /\ ~objects[Key(OperatorNamespace, PacketCaptureCertSecret)].exists)
       => ~objects'[Key(OperatorNamespace, PacketCaptureCertSecret)].exists]_vars

\* C7, reached: under certificate management Reconcile wrote Ready and applied
\* packet capture with a CSR init container, and the secret is not there.
C7_Witness ==
    /\ last.ctrl = "APIServer" /\ last.exit = "ready"
    /\ res.certMgmt /\ res.installation = Enterprise
    /\ ~objects[Key(OperatorNamespace, PacketCaptureCertSecret)].exists
    /\ objects[Key(PacketCaptureNamespace, "tigera-packetcapture")].exists
    /\ Len(objects[Key(PacketCaptureNamespace, "tigera-packetcapture")].images) = 2

\* C8: every container and init container image of the workloads an APIServer
\* Reconcile applied is <registry><image>@<digest> with the ImageSet's digest
\* for the image when an ImageSet exists, and <registry><image>:<version> with
\* the built-in version when none exists.
C8_Images ==
    (/\ last.ctrl = "APIServer" /\ ~last.err /\ last.request # StatusRequest("APIServer")
     /\ crs["APIServer"].exists /\ res.installation \in {Calico, Enterprise}) =>
        \A k \in IF res.installation = Enterprise
                 THEN {Key(APIServerNamespace(Enterprise), "tigera-apiserver"),
                       Key(PacketCaptureNamespace, "tigera-packetcapture")}
                 ELSE {Key(APIServerNamespace(Calico), "calico-apiserver")} :
            /\ objects[k].exists
            /\ Len(objects[k].images) >= 1
            /\ \A i \in 1..Len(objects[k].images) :
                 LET image == objects[k].images[i]
                 IN /\ image[1] = Registry
                    /\ res.imageSet = "absent" =>
                          image[3] = ":" /\ image[4] = ComponentVersion(image[2])
                    /\ res.imageSet # "absent" =>
                          image[3] = "@" /\ image[4] = ImageSetDigest(image[2])

\* C8, reached: with an ImageSet, Reconcile applied the API server with the
\* digests of the API server and the query server, and packet capture with its.
C8_Witness ==
    /\ last.ctrl = "APIServer" /\ last.exit = "ready" /\ res.imageSet = "complete"
    /\ objects[Key(APIServerNamespace(Enterprise), "tigera-apiserver")].images
         = <<<<Registry, ComponentAPIServer, "@", "sha256:apiserverhash">>,
             <<Registry, ComponentQueryServer, "@", "sha256:queryserverhash">>>>
    /\ objects[Key(PacketCaptureNamespace, "tigera-packetcapture")].images
         = <<<<Registry, ComponentPacketCapture, "@", "sha256:packetcapturehash">>>>

C10_DefaultAlertmanagerConfig ==
    [][LET operatorKey == Key(OperatorNamespace, AlertmanagerConfigSecret)
           prometheusKey == Key(TigeraPrometheusNamespace, AlertmanagerConfigSecret)
           read == ReadAlertmanagerConfigSecret(objects, NoFault)
       IN (~objects[operatorKey].exists /\ ~objects[prometheusKey].exists) =>
            /\ read.secret = ConfigSecret(DefaultAlertmanagerConfig)
            /\ read.createInOperatorNamespace
            /\ ~read.err
            /\ (last'.ctrl = "Monitor" /\ last'.exit \in {"ready", "notAvailable"}) =>
                  objects'[operatorKey] =
                      [ConfigSecret(DefaultAlertmanagerConfig) EXCEPT !.owners = {"Monitor"}]]_vars

\* C10, reached: Monitor wrote Ready and the default secret is in the operator
\* namespace, owned by the Monitor, and copied into tigera-prometheus.
C10_Witness ==
    /\ last.ctrl = "Monitor" /\ last.exit = "ready"
    /\ objects[Key(OperatorNamespace, AlertmanagerConfigSecret)] =
          [ConfigSecret(DefaultAlertmanagerConfig) EXCEPT !.owners = {"Monitor"}]
    /\ objects[Key(TigeraPrometheusNamespace, AlertmanagerConfigSecret)].data
          = DefaultAlertmanagerConfig

\* C11: on upgrade the Alertmanager configuration secret moves to the operator
\* namespace. With the secret only in tigera-prometheus, a Monitor Reconcile
\* that applies its components leaves a copy with the same data in the operator
\* namespace, owned by the Monitor exactly when the data is the default
\* configuration and without an owner otherwise; and no Monitor Reconcile gives
\* an owner to a secret it finds without one in the operator namespace.
C11_UpgradedAlertmanagerConfig ==
    [][LET operatorKey == Key(OperatorNamespace, AlertmanagerConfigSecret)
           prometheusKey == Key(TigeraPrometheusNamespace, AlertmanagerConfigSecret)
       IN last'.ctrl = "Monitor" =>
            /\ (/\ ~objects[operatorKey].exists /\ objects[prometheusKey].exists
                /\ last'.exit \in {"ready", "notAvailable"}) =>
                  /\ objects'[operatorKey].exists
                  /\ objects'[operatorKey].data = objects[prometheusKey].data
                  /\ objects'[operatorKey].owners =
                        IF objects[prometheusKey].data = DefaultAlertmanagerConfig
                        THEN {"Monitor"} ELSE {}
            /\ (objects[operatorKey].exists /\ objects[operatorKey].owners = {}) =>
                  objects'[operatorKey].owners = {}]_vars

\* C11, reached: a Monitor Reconcile that stopped at the image set had already
\* copied the user's modified secret into the operator namespace, without an
\* owner; the secret in tigera-prometheus is still the user's.
C11_Witness ==
    /\ last.ctrl = "Monitor" /\ last.exit = "imageSetError"
    /\ objects[Key(OperatorNamespace, AlertmanagerConfigSecret)] = ConfigSecret("custom")
    /\ objects[Key(TigeraPrometheusNamespace, AlertmanagerConfigSecret)] = ConfigSecret("custom")

\* C12: the operator watches the Alertmanager configuration secret in the
\* operator namespace. When anyone but the reconciler changes that secret while
\* the Monitor exists, a request for a Monitor Reconcile is in the queue; and a
\* Monitor Reconcile that applies its components leaves the copy in
\* tigera-prometheus with the data of the secret in the operator namespace.
C12_SecretChangeTriggersReconcile ==
    [][LET operatorKey == Key(OperatorNamespace, AlertmanagerConfigSecret)
           prometheusKey == Key(TigeraPrometheusNamespace, AlertmanagerConfigSecret)
       IN /\ (/\ last'.ctrl = "none" /\ crs["Monitor"].exists
              /\ objects'[operatorKey] # objects[operatorKey])
             => queue'["Monitor"] # {}
          /\ (/\ last'.ctrl = "Monitor" /\ last'.exit \in {"ready", "notAvailable"}
              /\ objects[operatorKey].exists)
             => objects'[prometheusKey].data = objects[operatorKey].data]_vars

\* C13: a secret in the operator namespace is read as-is. When the Alertmanager
\* configuration secret exists in the operator namespace,
\* readAlertmanagerConfigSecret returns it unchanged with
\* createInOperatorNamespace false and no error, whatever is in
\* tigera-prometheus, and writes nothing; and a Monitor Reconcile leaves the
\* secret in the operator namespace as it was, its owner references included.
C13_OperatorSecretAsIs ==
    [][LET operatorKey == Key(OperatorNamespace, AlertmanagerConfigSecret)
           read == ReadAlertmanagerConfigSecret(objects, NoFault)
       IN objects[operatorKey].exists =>
            /\ read.secret = objects[operatorKey]
            /\ ~read.createInOperatorNamespace
            /\ ~read.err
            /\ read.objects = objects
            /\ last'.ctrl = "Monitor" => objects'[operatorKey] = objects[operatorKey]]_vars

\* C13, reached: Monitor wrote Ready with a secret a user had put into the
\* operator namespace; the secret is still without an owner, and its copy in
\* tigera-prometheus is the Monitor's.
C13_Witness ==
    /\ last.ctrl = "Monitor" /\ last.exit = "ready"
    /\ objects[Key(OperatorNamespace, AlertmanagerConfigSecret)]
          = ConfigSecret(DefaultAlertmanagerConfig)
    /\ objects[Key(TigeraPrometheusNamespace, AlertmanagerConfigSecret)]
          = [ConfigSecret(DefaultAlertmanagerConfig) EXCEPT !.owners = {"Monitor"}]

\* C14: a custom resource that is not found ends the call quietly. When the
\* custom resource of a reconciler does not exist and the query for it does not
\* fail, Reconcile leaves the status manager as OnCRNotFound leaves it, not
\* degraded, returns an empty Result and no error, so that the request is
\* forgotten, and changes no object and no custom resource.
C14_CRNotFound ==
    [][\A c \in Controllers :
          (last'.ctrl = c /\ ~crs[c].exists /\ last'.io = NoFault) =>
              /\ ~status'[c].crFound
              /\ ~status'[c].degraded
              /\ last'.result = [Requeue |-> FALSE, RequeueAfter |-> 0]
              /\ ~last'.err
              /\ last'.request \notin queue'[c]
              /\ objects' = objects
              /\ crs' = crs]_vars

\* C14, reached: Compliance Reconcile ran after its resource was deleted; the
\* workload it had applied is still there.
C14_Witness ==
    /\ last.ctrl = "Compliance" /\ last.exit = "notFound"
    /\ ~crs["Compliance"].exists
    /\ ~status["Compliance"].crFound
    /\ objects[Key(ComplianceNamespace, "compliance-controller")].owners = {"Compliance"}

\* C15 as the specification states it: a Reconcile call that returns before its
\* component-apply loop has changed no object and no custom resource.
C15_AsStated ==
    [][(/\ last'.ctrl # "none"
        /\ last'.exit \notin {"applyError", "notLicensed", "notAvailable",
                              "readyUpdateError", "ready"})
       => objects' = objects /\ crs' = crs]_vars

\* C15: the guards come before the writes of the apply loop, and two writes
\* come before some guards. A Reconcile call that returns before its
\* component-apply loop has changed nothing but, in a call for the TigeraStatus
\* request, the status conditions of its own custom resource, and, in Monitor,
\* the operator namespace's copy of a modified Alertmanager configuration
\* secret found only in tigera-prometheus, created without an owner.
C15_GuardWrites ==
    [][LET operatorKey == Key(OperatorNamespace, AlertmanagerConfigSecret)
           prometheusKey == Key(TigeraPrometheusNamespace, AlertmanagerConfigSecret)
       IN \A c \in Controllers :
            (/\ last'.ctrl = c
             /\ last'.exit \notin {"applyError", "notLicensed", "notAvailable",
                                   "readyUpdateError", "ready"})
            => /\ \A d \in Controllers \ {c} : crs'[d] = crs[d]
               /\ crs'[c] = [crs[c] EXCEPT !.conditions = crs'[c].conditions]
               /\ crs'[c] # crs[c] => last'.request = StatusRequest(c)
               /\ \A k \in ObjectKeys :
                     objects'[k] # objects[k] =>
                        /\ c = "Monitor" /\ k = operatorKey
                        /\ ~objects[operatorKey].exists
                        /\ objects[prometheusKey].exists
                        /\ objects[prometheusKey].data # DefaultAlertmanagerConfig
                        /\ objects'[k] = CopyToNamespace(objects[prometheusKey])]_vars

\* C15, reached: a Monitor Reconcile for the TigeraStatus request returned at
\* the Installation guard after it had written three status conditions, and
\* applied nothing.
C15_Witness ==
    /\ last.ctrl = "Monitor" /\ last.exit = "installationNotFound"
    /\ last.request = StatusRequest("Monitor")
    /\ Len(crs["Monitor"].conditions) = 3
    /\ crs["Monitor"].conditions[1].type = ComponentReady
    /\ ~objects[Key(TigeraPrometheusNamespace, "calico-node-prometheus")].exists

\* C16 as the specification states it: a Reconcile writes State = Ready only
\* when it applied all its components and the status manager reports
\* IsAvailable, and every Reconcile that applied all its components while
\* IsAvailable is false leaves State as it was and returns RequeueAfter = 30
\* seconds and no error.
C16_AsStated ==
    [][\A c \in Controllers :
          last'.ctrl = c =>
              /\ (crs'[c].state = TigeraStatusReady /\ crs[c].state # TigeraStatusReady)
                  => last'.exit = "ready" /\ IsAvailable(c)
              /\ (/\ last'.exit \in {"notLicensed", "notAvailable", "readyUpdateError", "ready"}
                  /\ ~IsAvailable(c))
                  => /\ crs'[c].state = crs[c].state
                     /\ last'.result.RequeueAfter = 30
                     /\ ~last'.err]_vars

\* C16: Ready is written only over applied and available workloads. A
\* Reconcile writes State = Ready only when it applied all its components,
\* its workload among them, and the status manager reports IsAvailable. A
\* Reconcile that applied all its components while IsAvailable is false leaves
\* State as it was and returns RequeueAfter = 30 seconds and no error, except
\* Compliance under a license without the compliance feature, which leaves
\* State as it was and returns an empty Result and no error.
C16_ReadyWhenAvailable ==
    [][\A c \in Controllers :
          last'.ctrl = c =>
              /\ (crs'[c].state = TigeraStatusReady /\ crs[c].state # TigeraStatusReady)
                  => /\ last'.exit = "ready" /\ IsAvailable(c)
                     /\ \E k \in ObjectKeys :
                           /\ objects'[k].data = "workload"
                           /\ objects'[k].owners = {c}
              /\ (/\ last'.exit \in {"notLicensed", "notAvailable", "readyUpdateError", "ready"}
                  /\ ~IsAvailable(c))
                  => /\ crs'[c].state = crs[c].state
                     /\ ~last'.err
                     /\ last'.result.RequeueAfter =
                           IF c = "Compliance" /\ ~IsFeatureActive THEN 0 ELSE 30]_vars

\* C16, reached: Monitor applied its workload while the status manager did not
\* report it available; State is unwritten and the call returned RequeueAfter.
C16_Witness ==
    /\ last.ctrl = "Monitor" /\ last.exit = "notAvailable"
    /\ ~IsAvailable("Monitor")
    /\ crs["Monitor"].state = ""
    /\ last.result.RequeueAfter = 30 /\ ~last.err
    /\ objects[Key(TigeraPrometheusNamespace, "calico-node-prometheus")].owners = {"Monitor"}

\* C17: enterprise-only data stays out of other installs. When the
\* Installation variant is not TigeraSecureEnterprise, the ManagementCluster,
\* the ManagementClusterConnection, the AmazonCloudIntegration and the tunnel
\* CA secret an APIServer Reconcile renders with are nil whichever of them
\* exist, no guard about them stops the call, and the call leaves the packet
\* capture workload, the packet capture TLS secret and the tunnel secret as
\* they were.
C17_EnterpriseOnly ==
    [][(last'.ctrl = "APIServer" /\ res.installation # Enterprise) =>
          LET data == APIServerEnterpriseData(objects, res.installation)
          IN /\ ~data.managementCluster
             /\ ~data.managementClusterConnection
             /\ ~data.amazon
             /\ data.tunnelCASecret = NoKeyPair
             /\ ~data.tunnelSecretPassthrough
             /\ last'.exit \notin {"managementClusterError", "managementClusterConnectionError",
                                   "bothManagement", "tunnelSecretError", "amazonError",
                                   "packetCaptureCertError"}
             /\ \A k \in {Key(PacketCaptureNamespace, "tigera-packetcapture"),
                           Key(OperatorNamespace, PacketCaptureCertSecret),
                           Key(PacketCaptureNamespace, PacketCaptureCertSecret),
                           Key(OperatorNamespace, VoltronTunnelSecretName),
                           Key(APIServerNamespace(Enterprise), VoltronTunnelSecretName),
                           Key(APIServerNamespace(Calico), VoltronTunnelSecretName)} :
                   k \in ObjectKeys => objects'[k] = objects[k]]_vars

\* C17, reached: with the Calico variant and a ManagementCluster present,
\* Reconcile applied the API server and wrote Ready; there is no packet capture
\* workload, no packet capture TLS secret and no tunnel secret.
C17_Witness ==
    /\ last.ctrl = "APIServer" /\ last.exit = "ready"
    /\ res.installation = Calico /\ res.mc
    /\ objects[Key(APIServerNamespace(Calico), "calico-apiserver")].owners = {"APIServer"}
    /\ ~objects[Key(PacketCaptureNamespace, "tigera-packetcapture")].exists
    /\ ~objects[Key(OperatorNamespace, PacketCaptureCertSecret)].exists
    /\ ~objects[Key(OperatorNamespace, VoltronTunnelSecretName)].exists

====
